---------------------------- MODULE Spec2Model ----------------------------
(***************************************************************************)
(* Model of the caching layer of etsyboost (server/services/cache.ts and   *)
(* the request handlers of server/routes.ts that sit on top of it).        *)
(*                                                                         *)
(* cache.ts holds two revisions of the cache: FallbackCache (an external   *)
(* Redis tier with an in-process Map as fallback) and MemoryCache (a       *)
(* size-bounded in-process store).  Each revision has its own              *)
(* specification below:                                                    *)
(*   Spec       FallbackCache + CacheService, driven by direct calls       *)
(*   SpecRoutes FallbackCache + CacheService, driven by the HTTP handlers  *)
(*   SpecMem    MemoryCache + CacheService                                 *)
(* Time is in milliseconds, as Date.now() gives it.                        *)
(***************************************************************************)
EXTENDS Integers, Sequences, FiniteSets, TLC

(***************************************************************************)
(* Bounds of the model.                                                    *)
(***************************************************************************)
MaxCalls == 3        \* CacheService calls issued in one run
MaxNow == 2000       \* the clock stops advancing here (ms)
TickMs == 1000       \* granularity of the clock (ms)
MaxBufLen == 3       \* longest byte buffer handed to setBinary
MaxOutages == 2      \* how often the external server goes down
MaxSizeBytes == 12   \* MemoryCache's byte budget (maxSizeInMB * 1024 * 1024, scaled down)

(***************************************************************************)
(* Program constants.                                                      *)
(***************************************************************************)
DefaultExpiry == 86400     \* 24 * 60 * 60, the default ttl in seconds
HealthExpiry == 5          \* ttl of the health probe key
MaxRetries == 3            \* retryStrategy gives up when times > 3
RetryStepMs == 1000        \* times * 1000
RetryCapMs == 3000         \* Math.min(..., 3000)
MaxTags == 13              \* slice(0, 13)

Min(a, b) == IF a < b THEN a ELSE b

(***************************************************************************)
(* JSON values.  A value is a record with a type tag; strings are          *)
(* sequences of character codes.  JS null and "no value" are the same      *)
(* thing for the callers of get, so a miss is JNull.                       *)
(***************************************************************************)
JNull == [t |-> "null", n |-> 0, s |-> <<>>]
JBool(b) == [t |-> "bool", n |-> IF b THEN 1 ELSE 0, s |-> <<>>]
JNum(n) == [t |-> "num", n |-> n, s |-> <<>>]
JStr(s) == [t |-> "str", n |-> 0, s |-> s]

\* Character codes used below: 34 is the double quote, 92 the backslash, 61 is '='.
StrNull == <<110, 117, 108, 108>>
StrTrue == <<116, 114, 117, 101>>
StrFalse == <<102, 97, 108, 115, 101>>

RECURSIVE Digits(_)
Digits(n) == IF n < 10 THEN <<48 + n>> ELSE Digits(n \div 10) \o <<48 + (n % 10)>>

RECURSIVE Escape(_)
Escape(s) ==
  IF s = <<>> THEN <<>>
  ELSE IF s[1] = 34 \/ s[1] = 92
       THEN <<92, s[1]>> \o Escape(Tail(s))
       ELSE <<s[1]>> \o Escape(Tail(s))

RECURSIVE Unescape(_)
Unescape(s) ==
  IF s = <<>> THEN <<>>
  ELSE IF s[1] = 92 /\ Len(s) >= 2
       THEN <<s[2]>> \o Unescape(Tail(Tail(s)))
       ELSE <<s[1]>> \o Unescape(Tail(s))

\* JSON.stringify(value)
JSONstringify(v) ==
  CASE v.t = "null" -> StrNull
    [] v.t = "bool" -> IF v.n = 1 THEN StrTrue ELSE StrFalse
    [] v.t = "num" -> Digits(v.n)
    [] v.t = "str" -> <<34>> \o Escape(v.s) \o <<34>>

IsDigit(c) == c >= 48 /\ c <= 57

RECURSIVE ParseNat(_, _)
ParseNat(s, acc) ==
  IF s = <<>> THEN acc ELSE ParseNat(Tail(s), acc * 10 + (s[1] - 48))

\* Whether JSON.parse(text) succeeds (it throws a SyntaxError otherwise).
JSONparses(str) ==
  \/ str = StrNull
  \/ str = StrTrue
  \/ str = StrFalse
  \/ (str # <<>> /\ \A i \in 1..Len(str) : IsDigit(str[i]))
  \/ (Len(str) >= 2 /\ str[1] = 34 /\ str[Len(str)] = 34)

\* JSON.parse(text), for a text that parses.
JSONparse(str) ==
  CASE str = StrNull -> JNull
    [] str = StrTrue -> JBool(TRUE)
    [] str = StrFalse -> JBool(FALSE)
    [] str # <<>> /\ str[1] = 34 -> JStr(Unescape(SubSeq(str, 2, Len(str) - 1)))
    [] OTHER -> JNum(ParseNat(str, 0))

\* JS truthiness of a value: null, false, 0 and "" are falsy.
Truthy(v) ==
  CASE v.t = "null" -> FALSE
    [] v.t = "bool" -> v.n = 1
    [] v.t = "num" -> v.n # 0
    [] v.t = "str" -> v.s # <<>>

(***************************************************************************)
(* base64, as Buffer.toString('base64') and Buffer.from(_, 'base64') do    *)
(* it: three bytes become four characters of the alphabet A-Z a-z 0-9 + /, *)
(* and a last group of one or two bytes is padded with '='.                *)
(***************************************************************************)
B64Char(i) ==
  IF i < 26 THEN 65 + i
  ELSE IF i < 52 THEN 97 + (i - 26)
  ELSE IF i < 62 THEN 48 + (i - 52)
  ELSE IF i = 62 THEN 43 ELSE 47

B64Index(c) ==
  IF c >= 65 /\ c <= 90 THEN c - 65
  ELSE IF c >= 97 /\ c <= 122 THEN c - 97 + 26
  ELSE IF c >= 48 /\ c <= 57 THEN c - 48 + 52
  ELSE IF c = 43 THEN 62 ELSE 63

RECURSIVE toBase64(_)
toBase64(b) ==
  IF Len(b) = 0 THEN <<>>
  ELSE IF Len(b) = 1
       THEN <<B64Char(b[1] \div 4), B64Char((b[1] % 4) * 16), 61, 61>>
  ELSE IF Len(b) = 2
       THEN <<B64Char(b[1] \div 4), B64Char((b[1] % 4) * 16 + (b[2] \div 16)),
              B64Char((b[2] % 16) * 4), 61>>
  ELSE <<B64Char(b[1] \div 4), B64Char((b[1] % 4) * 16 + (b[2] \div 16)),
         B64Char((b[2] % 16) * 4 + (b[3] \div 64)), B64Char(b[3] % 64)>>
       \o toBase64(SubSeq(b, 4, Len(b)))

RECURSIVE StripPad(_)
StripPad(s) ==
  IF s = <<>> \/ s[1] = 61 THEN <<>> ELSE <<s[1]>> \o StripPad(Tail(s))

RECURSIVE FromSextets(_)
FromSextets(x) ==
  IF Len(x) < 2 THEN <<>>
  ELSE IF Len(x) = 2 THEN <<x[1] * 4 + (x[2] \div 16)>>
  ELSE IF Len(x) = 3
       THEN <<x[1] * 4 + (x[2] \div 16), (x[2] % 16) * 16 + (x[3] \div 4)>>
  ELSE <<x[1] * 4 + (x[2] \div 16), (x[2] % 16) * 16 + (x[3] \div 4),
         (x[3] % 4) * 64 + x[4]>>
       \o FromSextets(SubSeq(x, 5, Len(x)))

fromBase64(s) ==
  LET body == StripPad(s)
  IN FromSextets([i \in 1..Len(body) |-> B64Index(body[i])])


(***************************************************************************)
(* Inputs.                                                                 *)
(***************************************************************************)
\* Requests that can be in flight at the same time.
Procs == {1, 2}

UserKey(i) == [ns |-> "user", id |-> i]
\* `${this.prefix}health:${Date.now()}`
HealthKey(t) == [ns |-> "health", id |-> t]
UserKeys == {UserKey(1)}

StrTest == <<116, 101, 115, 116>>     \* 'test', the health probe's value

\* JSON-shaped values handed to set: a falsy one and a string that needs
\* escaping; the round-trip specification draws from the wider set.
Values == {JNum(0), JStr(<<97, 34>>)}
WideValues == {JNull, JBool(FALSE), JBool(TRUE), JNum(0), JNum(12), JStr(<<>>),
               JStr(<<97, 34>>), JStr(<<92, 97>>), JStr(StrNull)}

\* Byte buffers handed to setBinary: every sequence of these bytes up to MaxBufLen.
Bytes == {0, 255}
RECURSIVE SeqsUpTo(_, _)
SeqsUpTo(S, n) ==
  IF n = 0 THEN {<<>>}
  ELSE LET shorter == SeqsUpTo(S, n - 1)
       IN shorter \cup {Append(q, x) : q \in {r \in shorter : Len(r) = n - 1}, x \in S}
Buffers == SeqsUpTo(Bytes, MaxBufLen)

\* ttl arguments, in seconds.
ShortTTLs == {1, 2}

\* MemoryCache inputs: keys, and values whose serialized sizes are 2, 4, 10
\* and 14 bytes (the last one is larger than the budget).
MemKeys == {UserKey(1), UserKey(2), UserKey(3)}
TooLarge == JStr(<<97, 97, 97, 97, 97>>)
MemValues == {JNum(0), JStr(<<>>), JStr(<<97, 34>>), TooLarge}

(***************************************************************************)
(* Map helpers: a JS Map as a function whose domain is the set of keys.    *)
(***************************************************************************)
EmptyMap == [x \in {} |-> 0]
MapSet(m, k, e) == [x \in (DOMAIN m) \cup {k} |-> IF x = k THEN e ELSE m[x]]
MapDel(m, k) == [x \in (DOMAIN m) \ {k} |-> m[x]]

(***************************************************************************)
(* State.                                                                  *)
(***************************************************************************)
VARIABLES
  configured,       \* process.env.REDIS_URL is set
  redisNull,        \* FallbackCache.redis === null
  useMemoryCache,   \* FallbackCache.useMemoryCache
  connectionError,  \* FallbackCache.connectionError ("none" for null)
  memoryCache,      \* FallbackCache.memoryCache
  conn,             \* status of the ioredis client
  retries,          \* ioredis' retryAttempts
  retryDelay,       \* the delay retryStrategy returned last (-1: none, 0: gave up)
  serverUp,         \* the external cache server is reachable
  outages,          \* how often it went down
  redisStore,       \* what the external cache holds
  now,              \* Date.now()
  call,             \* per request: the CacheService call in flight
  pinged,           \* a ping was sent at some point
  ncalls,           \* calls (requests) issued so far
  fresh,            \* per request: its last set, while nothing touched the stores since
  latest,           \* the last set or del that completed, where a run records it
  route,            \* per request: the HTTP handler's position
  cache,            \* MemoryCache.cache, in insertion order
  currentSize,      \* MemoryCache.currentSize
  last,             \* MemoryCache: the last operation and its result
  keys,             \* key derivation: two derivations, their arguments and results
  gen               \* generateTags: its input, its position and its result

fcVars == <<configured, redisNull, useMemoryCache, connectionError, memoryCache,
            conn, retries, retryDelay, serverUp, outages, redisStore, now, call,
            pinged, ncalls, fresh, latest>>
memVars == <<cache, currentSize, last>>
fnVars == <<keys, gen>>
vars == <<fcVars, route, memVars, fnVars>>

NoFresh == [valid |-> FALSE, api |-> "none", key |-> UserKey(1), val |-> JNull,
            buf |-> <<>>, tier |-> "none"]
NoBin == [isNull |-> TRUE, bytes |-> <<>>]
\* api: the CacheService method; op: the FallbackCache method it is in;
\* err: what failed on the way ("ping", "cmd", "parse", "decode");
\* tier: the store that served it.
NoCall == [api |-> "none", op |-> "none", pc |-> "idle", key |-> UserKey(1),
           val |-> JNull, buf |-> <<>>, ttl |-> 0, status |-> "none",
           ret |-> JNull, bin |-> NoBin, tier |-> "none", err |-> "none"]

NewCall(api, op, key, val, buf, ttl) ==
  [api |-> api, op |-> op, pc |-> "idle", key |-> key, val |-> val, buf |-> buf,
   ttl |-> ttl, status |-> "none", ret |-> JNull, bin |-> NoBin, tier |-> "none",
   err |-> "none"]

\* A finished call keeps its result; its arguments are dropped.
Done(c, st, r, b, tr) ==
  [c EXCEPT !.pc = "done", !.status = st, !.ret = r, !.bin = b, !.tier = tr,
            !.val = JNull, !.buf = <<>>, !.ttl = 0]

\* A request handler of routes.ts: which route, where it is, the HTTP status
\* it answered with, what it sent ("cached", "computed" or "error"), whether
\* the tag generation or render succeeded, and whether a CacheService call
\* of the request threw; what it did, in order ("read", "compute", "write",
\* "respond"), the keys it read and wrote, what the cache lookup gave, and
\* the payload it sent (json for tags, bin for a watermarked file).
NoKeyUsed == [ns |-> "none", id |-> 0]
NoLook == [status |-> "none", ret |-> JNull, bin |-> NoBin]
NoRoute == [kind |-> "none", stage |-> "idle", status |-> 0, sent |-> "none",
            computed |-> FALSE, failed |-> FALSE, cacheThrew |-> FALSE, log |-> <<>>,
            readKey |-> NoKeyUsed, writeKey |-> NoKeyUsed, look |-> NoLook,
            json |-> JNull, bin |-> NoBin]

\* A key derivation: which function, its arguments (the watermark key's
\* opacity apart, in tenths) and the key it returned.
Slots == {1, 2}
NoKey == [kind |-> "none", args |-> <<>>, opacity |-> 0, key |-> <<>>]

\* What a caller of generateTags holds of an earlier call: nothing.
NoResult == [pc |-> "idle", title |-> "", description |-> "", category |-> "",
             tags |-> <<>>, seoTips |-> <<>>]

\* generateTags, not started.
NoGen == [pc |-> "idle", title |-> "", description |-> "", category |-> "",
          writes |-> <<>>, candidates |-> <<>>, tags |-> <<>>, seoTips |-> <<>>,
          prev |-> NoResult]

\* MemoryCache: the last operation, the value handed to set, get's result,
\* whether get found the entry expired, whether set rejected the value as
\* too large, whether set raised that to its caller, the keys set evicted to
\* make room and the latest expiry among the evicted entries.
NoLast == [op |-> "none", key |-> UserKey(1), val |-> JNull, ret |-> JNull,
           expired |-> FALSE, rejected |-> FALSE, threw |-> FALSE, evicted |-> {},
           evictedExp |-> 0]

(***************************************************************************)
(* FallbackCache: the in-process Map behind the external tier.             *)
(***************************************************************************)
\* Date.now() + expiry * 1000
ExpiryAt(t, ttl) == t + ttl * 1000

\* cached.expiry < Date.now()
Expired(e, t) == e.expiry < t

\* FallbackCache.set, else branch: this.memoryCache.set(key, {data, expiry})
fcMemSet(m, k, v, ttl, t) == MapSet(m, k, [data |-> v, expiry |-> ExpiryAt(t, ttl)])

\* FallbackCache.get, else branch: the value returned
fcMemGet(m, k, t) ==
  IF k \notin DOMAIN m THEN JNull
  ELSE IF Expired(m[k], t) THEN JNull
  ELSE m[k].data

\* FallbackCache.get, else branch: the Map afterwards (an expired entry is deleted)
fcMemAfterGet(m, k, t) ==
  IF k \in DOMAIN m /\ Expired(m[k], t) THEN MapDel(m, k) ELSE m

(***************************************************************************)
(* The external cache, as the ioredis client shows it: setex stores a text *)
(* with a ttl in seconds, get returns the text of a live key or nil.       *)
(***************************************************************************)
redisSetex(r, k, ttl, str, t) == MapSet(r, k, [str |-> str, exp |-> t + ttl * 1000])
redisLive(r, k, t) == k \in DOMAIN r /\ t < r[k].exp
redisDel(r, k) == MapDel(r, k)

\* A command can complete when the client is connected to a reachable server:
\* with a result, or with an error reply (LOADING, BUSY, OOM, ...).  It is
\* rejected when the server is unreachable or the client has given up.
CanServe == conn = "connect" /\ serverUp
Unreachable == ~serverUp \/ conn = "end"

(***************************************************************************)
(* CacheService on top of FallbackCache: how a finished FallbackCache      *)
(* operation (status st, value r, served by tier tr) ends or continues the *)
(* CacheService call c.                                                    *)
(***************************************************************************)
\* getBinary: data ? Buffer.from(data, 'base64') : null
getBinaryResult(c, st, r, tr) ==
  IF st = "threw" THEN Done(c, "threw", JNull, NoBin, tr)
  ELSE IF ~Truthy(r) THEN Done(c, "returned", JNull, NoBin, tr)
  ELSE IF r.t = "str"
       THEN Done(c, "returned", JNull, [isNull |-> FALSE, bytes |-> fromBase64(r.s)], tr)
  \* Buffer.from(<number or boolean>, 'base64') throws a TypeError
  ELSE Done([c EXCEPT !.err = "decode"], "threw", JNull, NoBin, tr)

\* (variant: healthCheck without its try/catch)
healthCheckNoCatch(c, st, r, tr) ==
  IF st = "threw" THEN Done(c, "threw", JNull, NoBin, tr)
  ELSE IF c.op = "set" THEN [c EXCEPT !.pc = "hcget", !.tier = tr]
  ELSE Done(c, "returned", JBool(r = JStr(StrTest)), NoBin, tr)

\* healthCheck: try { set; get; return result === 'test' } catch { return false }
healthCheckResult(c, st, r, tr) ==
  IF st = "threw" THEN Done(c, "returned", JBool(FALSE), NoBin, tr)
  ELSE IF c.op = "set" THEN [c EXCEPT !.pc = "hcget", !.tier = tr]
  ELSE Done(c, "returned", JBool(r = JStr(StrTest)), NoBin, tr)

Complete(c, st, r, tr) ==
  CASE c.api = "getBinary" -> getBinaryResult(c, st, r, tr)
    [] c.api = "healthCheck" -> healthCheckResult(c, st, r, tr)
    [] OTHER -> Done(c, st, r, NoBin, tr)

\* fresh after some operation touched a store, and after request p's set
\* (or setBinary) wrote to tier tr.
Disturbed == [q \in Procs |-> NoFresh]
FreshSet(p, c, tr) ==
  IF c.api \in {"set", "setBinary"}
  THEN [q \in Procs |->
          IF q = p
          THEN [valid |-> TRUE, api |-> c.api, key |-> c.key, val |-> c.val,
                buf |-> c.buf, tier |-> tr]
          ELSE NoFresh]
  ELSE Disturbed

\* latest after call c completed: a set or del of a caller's key replaces it
NoLatest == [on |-> FALSE, op |-> "none", val |-> JNull]
Tracked(c) ==
  IF latest.on /\ c.op \in {"set", "del"} /\ c.key \in UserKeys
  THEN [on |-> TRUE, op |-> c.op, val |-> c.val]
  ELSE latest

\* The else branch of set / get, and the tail of del: served by the Map.
RunMemory(p, c) ==
  /\ memoryCache' =
       CASE c.op = "set" -> fcMemSet(memoryCache, c.key, c.val, c.ttl, now)
         [] c.op = "get" -> fcMemAfterGet(memoryCache, c.key, now)
         [] c.op = "del" -> MapDel(memoryCache, c.key)
  /\ call' = [call EXCEPT ![p] =
       Complete(c, "returned",
                IF c.op = "get" THEN fcMemGet(memoryCache, c.key, now) ELSE JNull,
                "memory")]
  /\ fresh' = CASE c.op = "set" -> FreshSet(p, c, "memory")
                [] c.op = "get" -> IF memoryCache' = memoryCache THEN fresh ELSE Disturbed
                [] c.op = "del" -> Disturbed
  /\ latest' = Tracked(c)

\* useRedis(), first line: if (this.useMemoryCache || !this.redis) return false
useRedisSkips == useMemoryCache \/ redisNull

\* (variant: a successful ping clears the flag)
useRedisOkClears(flag) == FALSE

\* useRedis() after a successful ping: returns true and leaves the flag alone
useRedisOkFlag(flag) == flag

\* `!this.useMemoryCache && await this.useRedis() && this.redis`, up to the
\* first suspension: either the Map serves the call at once or a ping is sent.
Begin(p, c) ==
  /\ ncalls' = IF c.pc = "idle" THEN ncalls + 1 ELSE ncalls
  /\ IF useMemoryCache \/ useRedisSkips
     THEN /\ RunMemory(p, c)
          /\ UNCHANGED <<pinged, useMemoryCache, connectionError, redisStore>>
     ELSE /\ call' = [call EXCEPT ![p] = [c EXCEPT !.pc = "ping"]]
          /\ pinged' = TRUE
          /\ UNCHANGED <<memoryCache, fresh, latest, useMemoryCache, connectionError,
                         redisStore>>

Free(p) == call[p].pc \in {"idle", "done"} /\ ncalls < MaxCalls
envFrame == <<configured, redisNull, conn, retries, retryDelay, serverUp, outages, now,
              fnVars>>

(***************************************************************************)
(* CacheService entry points, called directly.  The sets the arguments are *)
(* drawn from are parameters, so that each specification chooses its own.  *)
(***************************************************************************)
CallSet(p, vals, ttls) ==
  /\ Free(p)
  /\ \E k \in UserKeys, v \in vals, ttl \in ttls :
       Begin(p, NewCall("set", "set", k, v, <<>>, ttl))
  /\ UNCHANGED <<envFrame, route, memVars>>

CallGet(p) ==
  /\ Free(p)
  /\ \E k \in UserKeys : Begin(p, NewCall("get", "get", k, JNull, <<>>, 0))
  /\ UNCHANGED <<envFrame, route, memVars>>

CallDel(p) ==
  /\ Free(p)
  /\ \E k \in UserKeys : Begin(p, NewCall("del", "del", k, JNull, <<>>, 0))
  /\ UNCHANGED <<envFrame, route, memVars>>

\* setBinary: this.set(key, data.toString('base64'), expiry)
CallSetBinary(p, bufs) ==
  /\ Free(p)
  /\ \E k \in UserKeys, b \in bufs :
       Begin(p, NewCall("setBinary", "set", k, JStr(toBase64(b)), b, DefaultExpiry))
  /\ UNCHANGED <<envFrame, route, memVars>>

CallGetBinary(p) ==
  /\ Free(p)
  /\ \E k \in UserKeys : Begin(p, NewCall("getBinary", "get", k, JNull, <<>>, 0))
  /\ UNCHANGED <<envFrame, route, memVars>>

\* healthCheck, first half: cache.set(testKey, 'test', 5)
CallHealthCheck(p) ==
  /\ Free(p)
  /\ Begin(p, NewCall("healthCheck", "set", HealthKey(now), JStr(StrTest), <<>>,
                      HealthExpiry))
  /\ UNCHANGED <<envFrame, route, memVars>>

\* healthCheck, second half: cache.get(testKey)
HealthRead(p) ==
  /\ call[p].pc = "hcget"
  /\ Begin(p, [call[p] EXCEPT !.op = "get"])
  /\ UNCHANGED <<envFrame, route, memVars>>

(***************************************************************************)
(* The steps of a call that went to the external tier.                     *)
(***************************************************************************)
\* await this.redis.ping() resolves: the command is sent
PingOk(p) ==
  /\ call[p].pc = "ping"
  /\ CanServe
  /\ call' = [call EXCEPT ![p].pc = "cmd"]
  /\ useMemoryCache' = useRedisOkFlag(useMemoryCache)
  /\ UNCHANGED <<envFrame, connectionError, memoryCache, redisStore, pinged, ncalls,
                 fresh, latest, route, memVars>>

\* await this.redis.ping() rejects: useRedis() latches the flag and returns
\* false, and the Map serves the call
PingRejected(p) ==
  /\ call[p].pc = "ping"
  /\ connectionError' = "ping"
  /\ useMemoryCache' = TRUE
  /\ RunMemory(p, [call[p] EXCEPT !.err = "ping"])
  /\ UNCHANGED <<envFrame, redisStore, pinged, ncalls, route, memVars>>

PingFail(p) == Unreachable /\ PingRejected(p)
PingErrorReply(p) == CanServe /\ PingRejected(p)

\* value ? JSON.parse(value) : null
redisGetResult(c, r, t) ==
  LET text == IF redisLive(r, c.key, t) THEN r[c.key].str ELSE <<>>
  IN IF text = <<>> THEN Complete(c, "returned", JNull, "redis")
     ELSE IF JSONparses(text) THEN Complete(c, "returned", JSONparse(text), "redis")
     ELSE Complete([c EXCEPT !.err = "parse"], "threw", JNull, "redis")

\* the setex / get / del command resolves
CmdOk(p) ==
  LET c == call[p] IN
  /\ c.pc = "cmd"
  /\ CanServe
  /\ CASE c.op = "set" ->
            /\ redisStore' = redisSetex(redisStore, c.key, c.ttl, JSONstringify(c.val), now)
            /\ call' = [call EXCEPT ![p] = Complete(c, "returned", JNull, "redis")]
            /\ fresh' = FreshSet(p, c, "redis")
            /\ latest' = Tracked(c)
            /\ UNCHANGED memoryCache
       [] c.op = "get" ->
            /\ call' = [call EXCEPT ![p] = redisGetResult(c, redisStore, now)]
            /\ UNCHANGED <<redisStore, memoryCache, fresh, latest>>
       [] c.op = "del" ->
            /\ redisStore' = redisDel(redisStore, c.key)
            /\ memoryCache' = MapDel(memoryCache, c.key)
            /\ call' = [call EXCEPT ![p] = Complete(c, "returned", JNull, "redis")]
            /\ fresh' = Disturbed
            /\ latest' = Tracked(c)
  /\ UNCHANGED <<envFrame, useMemoryCache, connectionError, pinged, ncalls, route,
                 memVars>>

\* the setex / get / del command rejects: nothing catches it inside FallbackCache
CmdRejected(p) ==
  /\ call[p].pc = "cmd"
  /\ call' = [call EXCEPT ![p] = Complete([call[p] EXCEPT !.err = "cmd"], "threw", JNull, "none")]
  /\ UNCHANGED <<envFrame, useMemoryCache, connectionError, memoryCache, redisStore,
                 pinged, ncalls, fresh, latest, route, memVars>>

CmdFail(p) == Unreachable /\ CmdRejected(p)
CmdErrorReply(p) == CanServe /\ CmdRejected(p)

(***************************************************************************)
(* The ioredis client's connection events and the handlers FallbackCache   *)
(* registers for them.                                                     *)
(***************************************************************************)
\* (variant: retryStrategy allows one attempt more)
retryStrategyGivesUpLate(times) == times > MaxRetries + 1

\* retryStrategy: if (times > 3) { ...; return null }
retryStrategyGivesUp(times) == times > MaxRetries

\* retryStrategy: Math.min(times * 1000, 3000)
retryStrategyDelay(times) == Min(times * RetryStepMs, RetryCapMs)

\* (variant: the connect handler leaves the flag alone)
onConnectKeeps(flag) == flag

\* this.redis.on('connect', ...): the flag after the handler ran
onConnectFlag(flag) == FALSE

\* (variant: the connect handler writes the Map's entries to the external cache)
onConnectImports(r, m) ==
  [k \in DOMAIN r \cup DOMAIN m |->
     IF k \in DOMAIN m
     THEN [str |-> JSONstringify(m[k].data), exp |-> m[k].expiry]
     ELSE r[k]]

\* this.redis.on('connect', ...): the external cache after the handler ran;
\* the handler touches neither store
onConnectStore(r, m) == r

\* this.redis.on('error', ...): the flag after the handler ran
onErrorFlag(flag) == TRUE

callFrame == <<call, memoryCache, redisStore, pinged, ncalls, fresh, latest, now, configured,
               redisNull, fnVars>>

\* the socket is established: 'connect' fires
RedisConnect ==
  /\ conn = "connecting"
  /\ serverUp
  /\ conn' = "connect"
  /\ retries' = 0
  /\ useMemoryCache' = onConnectFlag(useMemoryCache)
  /\ connectionError' = "none"
  /\ redisStore' = onConnectStore(redisStore, memoryCache)
  /\ UNCHANGED <<call, memoryCache, pinged, ncalls, fresh, latest, now, configured, redisNull,
                 retryDelay, serverUp, outages, route, memVars, fnVars>>

\* the client reports a connection error: 'error' fires
RedisError ==
  /\ conn \in {"connecting", "connect"}
  /\ ~serverUp
  /\ useMemoryCache' = onErrorFlag(useMemoryCache)
  /\ connectionError' = IF useMemoryCache THEN connectionError ELSE "event"
  /\ UNCHANGED <<callFrame, conn, retries, retryDelay, serverUp, outages, route, memVars>>

\* the socket closes: ioredis asks retryStrategy whether and when to reconnect
RedisClose ==
  /\ conn \in {"connecting", "connect"}
  /\ ~serverUp
  /\ LET times == retries + 1 IN
       IF retryStrategyGivesUp(times)
       THEN /\ conn' = "end"
            /\ connectionError' = "retries"
            /\ useMemoryCache' = TRUE
            /\ retryDelay' = 0
            /\ retries' = times
       ELSE /\ conn' = "reconnecting"
            /\ retryDelay' = retryStrategyDelay(times)
            /\ retries' = times
            /\ UNCHANGED <<connectionError, useMemoryCache>>
  /\ UNCHANGED <<callFrame, serverUp, outages, route, memVars>>

\* the retry delay elapsed: 'reconnecting' fired (it only logs), the client dials
RedisReconnect ==
  /\ conn = "reconnecting"
  /\ conn' = "connecting"
  /\ UNCHANGED <<callFrame, useMemoryCache, connectionError, retries, retryDelay,
                 serverUp, outages, route, memVars>>

(***************************************************************************)
(* The environment: the server goes away and comes back, time passes.      *)
(***************************************************************************)
ServerDown ==
  /\ configured
  /\ serverUp
  /\ outages < MaxOutages
  /\ serverUp' = FALSE
  /\ outages' = outages + 1
  /\ UNCHANGED <<callFrame, useMemoryCache, connectionError, conn, retries, retryDelay,
                 route, memVars>>

\* A connected client sees its socket close before it can reach the server again.
ServerUp ==
  /\ ~serverUp
  /\ configured
  /\ conn # "connect"
  /\ serverUp' = TRUE
  /\ UNCHANGED <<callFrame, useMemoryCache, connectionError, conn, retries, retryDelay,
                 outages, route, memVars>>

Tick ==
  /\ now + TickMs <= MaxNow
  /\ now' = now + TickMs
  /\ fresh' = Disturbed
  /\ last' = [NoLast EXCEPT !.op = "tick"]
  /\ UNCHANGED <<configured, redisNull, useMemoryCache, connectionError, memoryCache,
                 conn, retries, retryDelay, serverUp, outages, redisStore, call, pinged,
                 ncalls, latest, route, cache, currentSize, fnVars>>

(***************************************************************************)
(* Construction.                                                           *)
(***************************************************************************)
\* FallbackCache's constructor: REDIS_URL unset ("unset"), new Redis(...)
\* returned ("client") or threw ("threw").
\* (variant: only a constructor that threw starts degraded)
ctorFlagOnlyOnThrow(ctor) == ctor = "threw"

ctorUseMemoryCache(ctor) == ctor # "client"
ctorRedisNull(ctor) == ctor # "client"
ctorError(ctor) == IF ctor = "threw" THEN "init" ELSE "none"

InitFallbackCache(ctor, store) ==
  /\ configured = (ctor # "unset")
  /\ redisNull = ctorRedisNull(ctor)
  /\ useMemoryCache = ctorUseMemoryCache(ctor)
  /\ connectionError = ctorError(ctor)
  /\ memoryCache = EmptyMap
  /\ conn = IF ctor = "client" THEN "connecting" ELSE "none"
  /\ retries = 0
  /\ retryDelay = -1
  /\ serverUp \in (IF ctor = "unset" THEN {FALSE} ELSE BOOLEAN)
  /\ outages = 0
  /\ redisStore = store
  /\ now = 0
  /\ call = [p \in Procs |-> NoCall]
  /\ pinged = FALSE
  /\ ncalls = 0
  /\ fresh = Disturbed

InitOther ==
  /\ route = [p \in Procs |-> NoRoute]
  /\ cache = <<>>
  /\ currentSize = 0
  /\ last = NoLast
  /\ keys = [i \in Slots |-> NoKey]
  /\ gen = NoGen

InitRest == InitOther /\ latest = NoLatest

\* a run that records the last completed set or del
InitTracking == InitOther /\ latest = [NoLatest EXCEPT !.on = TRUE]

Ctors == {"unset", "client", "threw"}

Init == (\E ctor \in Ctors : InitFallbackCache(ctor, EmptyMap)) /\ InitRest

(***************************************************************************)
(* routes.ts: POST /api/generate-tags and POST /api/watermark, as far as   *)
(* they use the cache.  A handler runs up to its next await on a           *)
(* CacheService call, and goes on when that call has finished.             *)
(***************************************************************************)
\* "untyped": an upload fileTypeFromBuffer finds no type for; "other": an
\* upload whose type is neither an image nor a video
RouteKinds == {"tags", "image", "video", "other", "untyped"}

\* generateTagKey / generateWatermarkKey: one key per distinct request
RouteKey(kind) ==
  CASE kind = "tags" -> UserKey(1)
    [] kind = "image" -> UserKey(2)
    [] kind = "video" -> UserKey(3)
    [] OTHER -> UserKey(4)

\* what generateTags returns (a non-empty value), and the rendered bytes
TagsResult == JStr(<<116>>)
RenderedBytes == <<255, 0>>

\* the cache write is inside its own try/catch on the tags path and on the
\* image path; on the video path it is not
storeCaught(kind) == kind \in {"tags", "image"}

\* up to `await CacheService.get(cacheKey)` / `await CacheService.getBinary(cacheKey)`
Request(p, kind) ==
  /\ route[p].stage \in {"idle", "done"}
  /\ Free(p)
  /\ Begin(p, NewCall(IF kind = "tags" THEN "get" ELSE "getBinary", "get",
                      RouteKey(kind), JNull, <<>>, 0))
  /\ route' = [route EXCEPT ![p] = [NoRoute EXCEPT !.kind = kind, !.stage = "lookup",
                                                     !.log = <<"read">>,
                                                     !.readKey = RouteKey(kind)]]
  /\ UNCHANGED <<envFrame, memVars>>

Respond(r, st, what) ==
  [r EXCEPT !.stage = "done", !.status = st, !.sent = what, !.log = Append(@, "respond")]

\* (variant: the handler renders whatever was uploaded)
acceptsAnyType(kind) == TRUE

\* `if (!fileType)` and `if (!isVideo && !isImage)` let the request through;
\* the tags route has no upload
acceptedType(kind) == kind \in {"tags", "image", "video"}

\* (variant: the handler goes on to the cache write after a failed render)
storesRegardless(ok) == TRUE

\* the cache write follows `await storage.generateTags(...)`, `await
\* sharp(...).toBuffer()` or the awaited ffmpeg run: it is reached only when
\* that did not throw
reachesStore(ok) == ok

\* (variant: the handler ignores what the lookup returned)
lookupNeverHits(kind, c) == FALSE

\* `if (cachedResult)` after a lookup that did not throw
lookupHit(kind, c) ==
  /\ c.status = "returned"
  /\ IF kind = "tags" THEN Truthy(c.ret) ELSE ~c.bin.isNull

\* from the cache lookup's result to the response or to the cache write
AfterLookup(p) ==
  LET c == call[p]
      r == [route[p] EXCEPT !.cacheThrew = (c.status = "threw"),
                            !.look = [status |-> c.status, ret |-> c.ret, bin |-> c.bin]]
      hit == lookupHit(r.kind, c)
      tried == [r EXCEPT !.log = Append(@, "compute")]
      stay == UNCHANGED <<call, memoryCache, fresh, latest, pinged, ncalls, useMemoryCache,
                          connectionError, redisStore>>
  IN
  /\ r.stage = "lookup" /\ c.pc = "done"
  /\ \E ok \in BOOLEAN :
       IF hit
       THEN /\ route' = [route EXCEPT ![p] =
                           Respond([r EXCEPT !.json = c.ret, !.bin = c.bin], 200, "cached")]
            /\ stay
       ELSE IF ~acceptedType(r.kind)
       THEN route' = [route EXCEPT ![p] = Respond(r, 400, "error")] /\ stay
       ELSE IF ~reachesStore(ok)
       \* generateTags, sharp or ffmpeg failed
       THEN /\ route' = [route EXCEPT ![p] =
                           Respond([tried EXCEPT !.failed = TRUE], 500, "error")]
            /\ stay
       ELSE /\ route' = [route EXCEPT ![p] =
                           [tried EXCEPT !.stage = "store", !.computed = ok,
                                         !.failed = ~ok,
                                         !.log = Append(@, "write"),
                                         !.writeKey = RouteKey(r.kind)]]
            /\ IF r.kind = "tags"
               THEN Begin(p, NewCall("set", "set", RouteKey(r.kind), TagsResult, <<>>,
                                     DefaultExpiry))
               ELSE Begin(p, NewCall("setBinary", "set", RouteKey(r.kind),
                                     JStr(toBase64(RenderedBytes)), RenderedBytes,
                                     DefaultExpiry))
  /\ UNCHANGED <<envFrame, memVars>>

\* from the cache write's result to the response
AfterStore(p) ==
  LET c == call[p]
      r == [route[p] EXCEPT !.cacheThrew = @ \/ (c.status = "threw")]
  IN
  /\ r.stage = "store" /\ c.pc = "done"
  /\ route' = [route EXCEPT ![p] =
       IF c.status = "threw" /\ ~storeCaught(r.kind)
       THEN Respond(r, 500, "error")
       ELSE Respond([r EXCEPT !.json = IF r.kind = "tags" THEN TagsResult ELSE JNull,
                              !.bin = IF r.kind = "tags" THEN NoBin
                                      ELSE [isNull |-> FALSE, bytes |-> RenderedBytes]],
                    200, "computed")]
  /\ UNCHANGED <<fcVars, memVars, fnVars>>

(***************************************************************************)
(* Key derivation: CacheService.generateTagKey and generateWatermarkKey.   *)
(* Texts are sequences of UTF-16 code units, as everywhere in this module. *)
(***************************************************************************)
\* Buffer.from(text): the UTF-8 bytes of a text (code units below 2048)
RECURSIVE Utf8(_)
Utf8(s) ==
  IF s = <<>> THEN <<>>
  ELSE (IF s[1] < 128 THEN <<s[1]>>
        ELSE <<192 + (s[1] \div 64), 128 + (s[1] % 64)>>) \o Utf8(Tail(s))

\* `${opacity}` for an opacity given in tenths: 0 -> "0", 5 -> "0.5", 10 -> "1"
FormatTenths(n) ==
  IF n % 10 = 0 THEN Digits(n \div 10)
  ELSE Digits(n \div 10) \o <<46>> \o Digits(n % 10)

\* 'tags:' and 'watermark:'
TagsPrefix == <<116, 97, 103, 115, 58>>
WatermarkPrefix == <<119, 97, 116, 101, 114, 109, 97, 114, 107, 58>>

\* (variant: the description is left out of the key)
tagKeyWithoutDescription(title, description, category) ==
  TagsPrefix \o toBase64(Utf8(title \o <<58>> \o category))

\* `tags:${Buffer.from(`${title}:${description}:${category}`).toString("base64")}`
generateTagKey(title, description, category) ==
  TagsPrefix \o toBase64(Utf8(title \o <<58>> \o description \o <<58>> \o category))

\* `watermark:${Buffer.from(`${fileHash}:${watermarkText}:${position}:${opacity}`)
\*               .toString("base64")}`
generateWatermarkKey(fileHash, watermarkText, position, opacity) ==
  WatermarkPrefix \o toBase64(Utf8(fileHash \o <<58>> \o watermarkText \o <<58>>
                                   \o position \o <<58>> \o FormatTenths(opacity)))

\* Arguments: the empty text, 'a', ':', 'a:' and (titles only) a two-byte
\* character; file hashes are hexadecimal.
KeyTexts == {<<>>, <<97>>, <<58>>, <<97, 58>>}
TitleTexts == KeyTexts \cup {<<233>>}
FileHashes == {<<97>>, <<98>>}
Opacities == {5, 10}

FreeSlot(i) == keys[i].kind = "none" /\ \A j \in Slots : j < i => keys[j].kind # "none"

\* a caller derives a tag key
DeriveTagKey ==
  /\ \E i \in Slots, t \in TitleTexts, d \in KeyTexts, c \in KeyTexts :
       /\ FreeSlot(i)
       /\ keys' = [keys EXCEPT ![i] = [kind |-> "tags", args |-> <<t, d, c>>,
                                       opacity |-> 0, key |-> generateTagKey(t, d, c)]]
  /\ UNCHANGED <<fcVars, route, memVars, gen>>

\* a caller derives a watermark key
DeriveWatermarkKey ==
  /\ \E i \in Slots, h \in FileHashes, t \in KeyTexts, pos \in KeyTexts, o \in Opacities :
       /\ FreeSlot(i)
       /\ keys' = [keys EXCEPT ![i] = [kind |-> "watermark", args |-> <<h, t, pos>>,
                                       opacity |-> o,
                                       key |-> generateWatermarkKey(h, t, pos, o)]]
  /\ UNCHANGED <<fcVars, route, memVars, gen>>

(***************************************************************************)
(* MemoryCache: a Map of entries {data, expiry, size} in insertion order,  *)
(* and the running total of their sizes.                                   *)
(***************************************************************************)
maxSize == MaxSizeBytes

\* calculateSize: JSON.stringify(data).length * 2
calculateSize(data) == Len(JSONstringify(data)) * 2

\* (variant: entries never count as expired)
mcNeverExpired(e, t) == FALSE

\* entry.expiry < now, as cleanup and get test it
mcExpired(e, t) == e.expiry < t

mcHas(c, k) == \E i \in 1..Len(c) : c[i].key = k
mcEntry(c, k) == c[CHOOSE i \in 1..Len(c) : c[i].key = k]

\* Map.delete(key)
RECURSIVE mcDelete(_, _)
mcDelete(c, k) ==
  IF c = <<>> THEN <<>>
  ELSE IF c[1].key = k THEN Tail(c)
  ELSE <<c[1]>> \o mcDelete(Tail(c), k)

\* Map.set(key, entry): an existing key keeps its place, a new one goes last
mcPut(c, e) ==
  IF mcHas(c, e.key)
  THEN [i \in 1..Len(c) |-> IF c[i].key = e.key THEN e ELSE c[i]]
  ELSE Append(c, e)

RECURSIVE SumSizes(_)
SumSizes(c) == IF c = <<>> THEN 0 ELSE c[1].size + SumSizes(Tail(c))

\* Array.from(entries).sort((a, b) => a[1].expiry - b[1].expiry): a stable sort
RECURSIVE InsertByExpiry(_, _)
InsertByExpiry(sorted, e) ==
  IF sorted = <<>> THEN <<e>>
  ELSE IF e.expiry < sorted[1].expiry THEN <<e>> \o sorted
  ELSE <<sorted[1]>> \o InsertByExpiry(Tail(sorted), e)

\* (variant: no sort, the entries stay in insertion order)
InsertionOrder(c) == c

RECURSIVE SortByExpiry(_)
SortByExpiry(c) ==
  IF c = <<>> THEN <<>>
  ELSE InsertByExpiry(SortByExpiry(SubSeq(c, 1, Len(c) - 1)), c[Len(c)])

\* (variant: makeRoom never evicts)
neverEvict(cur, size) == FALSE

\* makeRoom's loop condition
mustEvict(cur, size) == cur + size > maxSize

\* makeRoom's loop: while (currentSize + size > maxSize && entries.length > 0)
RECURSIVE evictLoop(_, _, _, _, _)
evictLoop(entries, c, cur, size, gone) ==
  IF mustEvict(cur, size) /\ entries # <<>>
  THEN evictLoop(Tail(entries), mcDelete(c, entries[1].key), cur - entries[1].size,
                 size, gone \cup {entries[1].key})
  ELSE [cache |-> c, currentSize |-> cur, evicted |-> gone]

\* makeRoom: if (size > this.maxSize) throw new Error("Item too large for cache")
tooLarge(size) == size > maxSize

makeRoom(c, cur, size) == evictLoop(SortByExpiry(c), c, cur, size, {})

\* the latest expiry among the entries of c whose key is in ks (0: none)
latestExpiry(c, ks) ==
  LET exps == {c[i].expiry : i \in {j \in 1..Len(c) : c[j].key \in ks}}
  IN IF exps = {} THEN 0 ELSE CHOOSE e \in exps : \A f \in exps : f <= e

\* (variant: set does not take the replaced entry's size off the total)
replacedSizeIgnored(c, k) == 0

\* if (this.cache.has(key)) { this.currentSize -= oldEntry.size }: what set
\* takes off the total before it stores the entry
replacedSize(c, k) == IF mcHas(c, k) THEN mcEntry(c, k).size ELSE 0

\* set's catch block logs makeRoom's error and does not rethrow it
setRethrows == FALSE

\* MemoryCache.set; the catch swallows makeRoom's error
mcSet(k, data, ttl) ==
  LET size == calculateSize(data) IN
  /\ IF tooLarge(size)
     THEN /\ last' = [NoLast EXCEPT !.op = "set", !.key = k, !.val = data,
                                    !.rejected = TRUE, !.threw = setRethrows]
          /\ UNCHANGED <<cache, currentSize>>
     ELSE LET room == makeRoom(cache, currentSize, size)
              entry == [key |-> k, data |-> data, expiry |-> ExpiryAt(now, ttl),
                        size |-> size]
              old == replacedSize(room.cache, k)
          IN /\ cache' = mcPut(room.cache, entry)
             /\ currentSize' = room.currentSize - old + size
             /\ last' = [NoLast EXCEPT !.op = "set", !.key = k, !.val = data,
                                       !.evicted = room.evicted,
                                       !.evictedExp = latestExpiry(cache, room.evicted)]
  /\ UNCHANGED <<fcVars, route, fnVars>>

\* MemoryCache.get
mcGet(k) ==
  /\ IF ~mcHas(cache, k)
     THEN /\ last' = [NoLast EXCEPT !.op = "get", !.key = k]
          /\ UNCHANGED <<cache, currentSize>>
     ELSE LET cached == mcEntry(cache, k) IN
          IF mcExpired(cached, now)
          THEN /\ currentSize' = currentSize - cached.size
               /\ cache' = mcDelete(cache, k)
               /\ last' = [NoLast EXCEPT !.op = "get", !.key = k, !.expired = TRUE]
          ELSE /\ last' = [NoLast EXCEPT !.op = "get", !.key = k, !.ret = cached.data]
               /\ UNCHANGED <<cache, currentSize>>
  /\ UNCHANGED <<fcVars, route, fnVars>>

\* MemoryCache.del
mcDel(k) ==
  /\ IF mcHas(cache, k)
     THEN /\ currentSize' = currentSize - mcEntry(cache, k).size
          /\ cache' = mcDelete(cache, k)
     ELSE UNCHANGED <<cache, currentSize>>
  /\ last' = [NoLast EXCEPT !.op = "del", !.key = k]
  /\ UNCHANGED <<fcVars, route, fnVars>>

\* MemoryCache.cleanup, run by setInterval every five minutes
RECURSIVE sweep(_, _)
sweep(c, t) ==
  IF c = <<>> THEN <<>>
  ELSE IF mcExpired(c[1], t) THEN sweep(Tail(c), t)
  ELSE <<c[1]>> \o sweep(Tail(c), t)

cleanup ==
  /\ cache' = sweep(cache, now)
  /\ currentSize' = currentSize - (SumSizes(cache) - SumSizes(cache'))
  /\ last' = [NoLast EXCEPT !.op = "cleanup"]
  /\ UNCHANGED <<fcVars, route, fnVars>>

\* The steps of request p's call in flight.
NetStep(p) == PingOk(p) \/ PingFail(p) \/ CmdOk(p) \/ CmdFail(p)
RedisStep(p) == NetStep(p) \/ PingErrorReply(p) \/ CmdErrorReply(p)

ConnStep ==
  \/ RedisConnect \/ RedisError \/ RedisClose \/ RedisReconnect
  \/ ServerDown \/ ServerUp

DirectCall(p) ==
  \/ CallSet(p, Values, {DefaultExpiry}) \/ CallGet(p) \/ CallDel(p)
  \/ CallHealthCheck(p)

\* Tiering: the set, get, del and healthCheck calls of one request after the
\* other, against a server that comes and goes.  Runs are far shorter than
\* the ttl, so the clock stands still.
Next == DirectCall(1) \/ HealthRead(1) \/ RedisStep(1) \/ ConnStep

Spec == Init /\ [][Next]_vars

\* Tier flips: set, get and del of one key, one request after the other,
\* against a server that comes and goes, with the last completed set or del
\* recorded.
NextTiers ==
  \/ CallSet(1, Values, {DefaultExpiry}) \/ CallGet(1) \/ CallDel(1)
  \/ RedisStep(1) \/ ConnStep

InitTiers == (\E ctor \in Ctors : InitFallbackCache(ctor, EmptyMap)) /\ InitTracking

SpecTiers == InitTiers /\ [][NextTiers]_vars

\* Concurrency: two requests whose set, get, del and healthCheck calls
\* interleave with each other and with the connection events.
ConcCall(p) == CallSet(p, {JNum(0)}, {DefaultExpiry}) \/ CallGet(p) \/ CallDel(p)

NextConc ==
  \/ \E p \in Procs : ConcCall(p) \/ CallHealthCheck(p) \/ HealthRead(p) \/ RedisStep(p)
  \/ ConnStep

SpecConc == Init /\ [][NextConc]_vars

\* Round trips: one request sets and reads back JSON values, through
\* whichever tier the connection state selects; MemoryCache is set and read
\* as well, with a small value and with one larger than its budget.
NextRT ==
  \/ CallSet(1, WideValues, {DefaultExpiry}) \/ CallGet(1)
  \/ RedisStep(1) \/ ConnStep
  \/ \E v \in {JNum(0), TooLarge} : mcSet(UserKey(1), v, DefaultExpiry)
  \/ mcGet(UserKey(1))

SpecRT == Init /\ [][NextRT]_vars

\* Binary round trips: the same with byte buffers.
NextBin ==
  \/ CallSetBinary(1, Buffers) \/ CallGetBinary(1)
  \/ RedisStep(1) \/ ConnStep

SpecBin == Init /\ [][NextBin]_vars

\* Recovery: a server that is reachable or not (it sends no error replies).
\* The event loop runs the client's timers and socket events, so a due
\* reconnect, a possible connect and a pending close do happen.
NextLive == CallGet(1) \/ NetStep(1) \/ ConnStep

Fairness == WF_vars(RedisConnect) /\ WF_vars(RedisReconnect) /\ WF_vars(RedisClose)

SpecLive == Init /\ [][NextLive]_vars /\ Fairness

\* Requests: one client sends tag and watermark requests, one at a time.
NextRoutes ==
  \/ \E kind \in RouteKinds : Request(1, kind)
  \/ AfterLookup(1) \/ AfterStore(1)
  \/ RedisStep(1) \/ ConnStep

SpecRoutes == Init /\ [][NextRoutes]_vars

\* MemoryCache: set, get, del and the sweep on three keys under a ticking
\* clock.
NextMem ==
  \/ \E k \in MemKeys, v \in MemValues, ttl \in ShortTTLs : mcSet(k, v, ttl)
  \/ \E k \in MemKeys : mcGet(k)
  \/ \E k \in MemKeys : mcDel(k)
  \/ cleanup
  \/ Tick

InitMem == InitFallbackCache("unset", EmptyMap) /\ InitRest

SpecMem == InitMem /\ [][NextMem]_vars

\* Expiry: both in-process stores (FallbackCache's Map with no external
\* cache configured, and MemoryCache) on one key under a ticking clock.
NextExp ==
  \/ CallSet(1, Values, ShortTTLs) \/ CallGet(1)
  \/ \E v \in Values, ttl \in ShortTTLs : mcSet(UserKey(1), v, ttl)
  \/ mcGet(UserKey(1))
  \/ cleanup
  \/ Tick

SpecExp == InitMem /\ [][NextExp]_vars

\* The same, with the clock running and MemoryCache's interval timer firing
\* again and again; no request has to come.
SweepFairness == WF_vars(cleanup) /\ WF_vars(Tick)

SpecSweep == InitMem /\ [][NextExp]_vars /\ SweepFairness

\* Key derivation: two keys are derived, at any two times.
NextKeys == DeriveTagKey \/ DeriveWatermarkKey \/ Tick

SpecKeys == InitMem /\ [][NextKeys]_vars

(***************************************************************************)
(* storage.ts: DatabaseStorage.generateTags.  Texts are strings; a JS Map  *)
(* is a sequence of [text, score] entries in insertion order, which is the *)
(* order Array.from(tagScores.entries()) gives.                            *)
(***************************************************************************)
Upper == "ABCDEFGHIJKLMNOPQRSTUVWXYZ"
Lower == "abcdefghijklmnopqrstuvwxyz"

lowerChar(c) ==
  IF \E i \in 1..Len(Upper) : SubSeq(Upper, i, i) = c
  THEN LET i == CHOOSE i \in 1..Len(Upper) : SubSeq(Upper, i, i) = c IN SubSeq(Lower, i, i)
  ELSE c

\* String.prototype.toLowerCase, on the letters A-Z; the text is lowered
\* half by half
RECURSIVE toLowerCase(_)
toLowerCase(s) ==
  IF Len(s) <= 1 THEN lowerChar(s)
  ELSE LET h == Len(s) \div 2
       IN toLowerCase(SubSeq(s, 1, h)) \o toLowerCase(SubSeq(s, h + 1, Len(s)))

\* String.prototype.includes
includes(s, sub) ==
  \E i \in 1..(Len(s) - Len(sub) + 1) : SubSeq(s, i, i + Len(sub) - 1) = sub

\* String.prototype.split(' '): the text before the first space, then the
\* parts of what follows it
RECURSIVE split(_)
split(s) ==
  LET spaces == {i \in 1..Len(s) : SubSeq(s, i, i) = " "} IN
  IF spaces = {} THEN <<s>>
  ELSE LET at == CHOOSE i \in spaces : \A j \in spaces : i <= j
       IN <<SubSeq(s, 1, at - 1)>> \o split(SubSeq(s, at + 1, Len(s)))

\* KEYWORDS_BY_CATEGORY[category] for the three categories the table has
KnownCategories == {"Books", "Art", "Personalized Items"}

KEYWORDS_BY_CATEGORY(category) ==
  IF category = "Books"
  THEN <<"personalized book", "custom story book", "children's book",
         "kids story book", "educational book", "unique story book",
         "personalized story", "custom children's book">>
  ELSE IF category = "Art"
  THEN <<"personalized art", "custom art", "wall art",
         "kids room art", "nursery decor", "custom design">>
  ELSE <<"personalized gift", "custom gift", "unique gift",
         "made to order", "custom made", "personalized keepsake">>

\* The table is a plain object: a category that names a member every object
\* inherits ("constructor", "toString", ...) reads that member, which is
\* truthy and has no forEach.
InheritedNames == {"constructor", "toString", "valueOf", "hasOwnProperty"}

MARKETING_PHRASES ==
  << <<"perfect gift", 9>>, <<"gift for kids", 8>>, <<"gift for baby", 8>>,
     <<"new baby gift", 8>>, <<"birthday gift", 7>>, <<"special gift", 7>>,
     <<"unique gift idea", 8>>, <<"personalized gift", 9>>,
     <<"educational gift", 7>>, <<"custom made", 8>> >>

AUDIENCE_KEYWORDS ==
  << <<"new parents", 9>>, <<"little ones", 8>>, <<"children", 7>>, <<"kids", 7>>,
     <<"toddler", 7>>, <<"baby shower", 8>>, <<"birthday", 7>>, <<"new baby", 8>>,
     <<"baby gift", 8>>, <<"kids gift", 8>> >>

FEATURE_KEYWORDS ==
  << <<"personalized", 9>>, <<"customized", 8>>, <<"handmade", 7>>, <<"unique", 7>>,
     <<"educational", 7>>, <<"developmental", 6>>, <<"learning", 6>>, <<"creative", 6>> >>

SPECIALTY_KEYWORDS ==
  << <<"zodiac signs", 8>>, <<"birth chart", 7>>, <<"astrology", 8>>, <<"horoscope", 7>>,
     <<"star sign", 7>>, <<"astrological", 7>>, <<"celestial", 6>>, <<"stars", 5>> >>

\* `${input.title} ${input.description}`.toLowerCase()
contentOf(title, description) == toLowerCase(title \o " " \o description)

containsKeyword(content, keyword) ==
  LET parts == split(toLowerCase(keyword)) IN
  \A i \in 1..Len(parts) : includes(content, parts[i])

\* What a run of generateTags does to tagScores is a list of
\* tagScores.set(text, score) calls, in the order the rules make them.
Write(text, score) == [text |-> text, score |-> score]

\* tagScores after the calls in writes.  Map.prototype.set puts a new key at
\* the end, and leaves an existing key in its place with the new value: the
\* keys are in the order of their first call, each with the score of its
\* last call.
tagScores(writes) ==
  LET n == Len(writes)
      isFirst(i) == \A j \in 1..(i - 1) : writes[j].text # writes[i].text
      firsts == SelectSeq([i \in 1..n |-> i], isFirst)
      lastOf(text) == CHOOSE i \in 1..n :
                        /\ writes[i].text = text
                        /\ \A j \in (i + 1)..n : writes[j].text # text
  IN [k \in 1..Len(firsts) |->
        Write(writes[firsts[k]].text, writes[lastOf(writes[firsts[k]].text)].score)]

Max2(a, b) == IF a > b THEN a ELSE b

\* (variant: the score is stored as summed)
noClamp(score) == score

\* Math.min(10, Math.max(1, score))
clamp(score) == Min(10, Max2(1, score))

\* the score addScoredTags computes for a keyword the content contains
keywordScore(title, keyword, baseScore, categoryBonus) ==
  clamp(baseScore + categoryBonus
        + (IF Len(split(keyword)) > 1 THEN 1 ELSE 0)
        + (IF includes(toLowerCase(title), toLowerCase(keyword)) THEN 1 ELSE 0))

\* addScoredTags(keywords, categoryBonus): one call of set for every keyword
\* the content contains, in the order of the table
addScoredTags(content, title, keywords, categoryBonus) ==
  LET found(entry) == containsKeyword(content, entry[1])
      matched == SelectSeq(keywords, found)
  IN [i \in 1..Len(matched) |->
        Write(matched[i][1],
              keywordScore(title, matched[i][1], matched[i][2], categoryBonus))]

\* categoryKeywords.forEach(...): 9 for every keyword of the category's
\* list the content contains; no list, no call
addCategoryTags(content, category) ==
  LET found(keyword) == containsKeyword(content, keyword)
      matched == IF category \in KnownCategories
                 THEN SelectSeq(KEYWORDS_BY_CATEGORY(category), found)
                 ELSE <<>>
  IN [i \in 1..Len(matched) |-> Write(matched[i], 9)]

addStoryBook(content) ==
  IF includes(content, "story") /\ includes(content, "book")
  THEN <<Write("story book", 8), Write("custom story book", 9),
         Write("personalized story book", 9)>>
  ELSE <<>>

addKidsGift(content) ==
  IF includes(content, "child") \/ includes(content, "kid")
  THEN <<Write("children gift", 8), Write("gift for kids", 9),
         Write("perfect gift for kids", 9)>>
  ELSE <<>>

\* the calls of set of one run, rule after rule in the order of the code
tagWrites(title, description, category) ==
  LET content == contentOf(title, description) IN
     addCategoryTags(content, category)
  \o addScoredTags(content, title, MARKETING_PHRASES, 1)
  \o addScoredTags(content, title, AUDIENCE_KEYWORDS, 1)
  \o addScoredTags(content, title, FEATURE_KEYWORDS, 0)
  \o addScoredTags(content, title, SPECIALTY_KEYWORDS,
                   IF includes(content, "zodiac") THEN 2 ELSE 0)
  \o addStoryBook(content)
  \o addKidsGift(content)

\* where the i-th entry of m lands when m is sorted by
\* (a, b) => b.score - a.score: after every entry that scores more, and
\* after the entries before it that score the same (the sort is stable)
rankOf(m, i) ==
  1 + Cardinality({j \in 1..Len(m) : \/ m[j].score > m[i].score
                                     \/ m[j].score = m[i].score /\ j < i})

\* (variant: the entries are returned in the order of the Map)
unsorted(m) == m

\* Array.prototype.sort((a, b) => b.score - a.score), which is stable
sortByScore(m) ==
  [r \in 1..Len(m) |-> m[CHOOSE i \in 1..Len(m) : rankOf(m, i) = r]]

\* Array.prototype.slice(0, n)
slice(s, n) == SubSeq(s, 1, Min(n, Len(s)))

rankTags(m) == slice(sortByScore(m), MaxTags)

\* EMOJI_MAPPINGS in the order of Object.entries; an emoji is written by
\* its name.
EMOJI_MAPPINGS ==
  << <<"Books", <<"books", "open book", "closed book">> >>,
     <<"Art", <<"palette", "framed picture", "performing arts">> >>,
     <<"Clothing", <<"t-shirt", "dress", "coat">> >>,
     <<"Home Decor", <<"house", "potted plant", "couch">> >>,
     <<"Toys", <<"teddy bear", "video game", "game die">> >>,
     <<"Craft Supplies", <<"scissors", "yarn", "palette">> >>,
     <<"Vintage", <<"alarm clock", "radio", "old key">> >>,
     <<"gift", <<"wrapped gift", "ribbon">> >>,
     <<"present", <<"wrapped gift", "ribbon">> >>,
     <<"birthday", <<"birthday cake", "balloon">> >>,
     <<"baby", <<"baby", "baby bottle">> >>,
     <<"shower", <<"shower", "ribbon">> >>,
     <<"personalized", <<"sparkles", "heart with ribbon">> >>,
     <<"custom", <<"bullseye", "sparkles">> >>,
     <<"handmade", <<"palms up", "heart with ribbon">> >>,
     <<"unique", <<"dizzy", "star">> >>,
     <<"creative", <<"palette", "sparkles">> >>,
     <<"zodiac", <<"star", "glowing star">> >>,
     <<"astrology", <<"crescent moon", "star">> >>,
     <<"celestial", <<"sparkles", "crescent moon">> >>,
     <<"stars", <<"star", "sparkles">> >> >>

\* What Math.random() returns, to the precision the emoji lists (of two and
\* of three) can tell apart: d stands for the numbers from d/6 up to (d+1)/6.
DrawValues == 0..5

\* Math.floor(Math.random() * emojis.length), as an index from 1
drawIndex(d, n) == (d * n) \div Cardinality(DrawValues) + 1

\* getEmojiForTag(tag, category), d being what Math.random() returns if it
\* is called
getEmojiForTag(tag, category, d) ==
  LET n == Len(EMOJI_MAPPINGS)
      matches == {k \in 1..n : includes(toLowerCase(tag), toLowerCase(EMOJI_MAPPINGS[k][1]))}
      own == {k \in 1..n : EMOJI_MAPPINGS[k][1] = category}
  IN IF matches # {}
     THEN LET emojis == EMOJI_MAPPINGS[CHOOSE k \in matches : \A l \in matches : k <= l][2]
          IN emojis[drawIndex(d, Len(emojis))]
     ELSE IF own # {} THEN EMOJI_MAPPINGS[CHOOSE k \in own : TRUE][2][1]
     ELSE "sparkles"

\* .map(([text, score]) => ({text, score, emoji})): the i-th entry is
\* decorated with the i-th draw
decorate(entries, category, draws) ==
  [i \in 1..Len(entries) |->
     [text |-> entries[i].text, score |-> entries[i].score,
      emoji |-> getEmojiForTag(entries[i].text, category, draws[i])]]

\* seoTips
seoTips(category) ==
  <<"Include 'personalized' and 'custom' in your title for better visibility",
    "Target gift-giving occasions in your tags (birthday, baby shower, etc.)",
    "Use specific phrases like 'perfect gift for kids' in your description",
    "Highlight the customization aspects in your first few tags",
    "Consider seasonal gift-giving opportunities for " \o toLowerCase(category)>>

\* The listings generateTags is called with.
TagTitles ==
  {"Wooden blocks", "Gift for kids", "Personalized Story Book",
   "Zodiac signs wall art", "Custom made birthday gift", "Handmade mug"}

TagDescriptions ==
  {"plain ceramic mug",
   "a perfect gift for kids and children",
   "a unique personalized gift: custom story book for a new baby shower or birthday, educational and creative learning for kids, toddler, little ones and new parents",
   "astrology horoscope stars celestial birth chart star sign",
   "special gift idea for kids room, nursery decor, made to order keepsake",
   "handmade with love"}

TagCategories == {"Books", "Art", "Personalized Items", "Toys", "constructor"}

\* A few listings, for runs that are compared with one another.
FewTitles == {"Gift for kids", "Wooden blocks"}
FewDescriptions == {"plain ceramic mug"}
FewCategories == {"Toys", "constructor"}

\* What the calls of Math.random() of one run return, one per entry: any
\* numbers, or (to keep the runs few) the same number every time.
AnyDraws(n) == [1..n -> {0, 5}]
SameDraws(n) == {[i \in 1..n |-> d] : d \in DrawValues}

\* One call of generateTags, from its arguments to what it returns or throws.
CallGenerateTags(Titles, Descriptions, Categories, anyDraws) ==
  /\ gen.pc = "idle"
  /\ \E title \in Titles, description \in Descriptions, category \in Categories :
       IF category \in InheritedNames
       THEN gen' = [NoGen EXCEPT !.pc = "threw", !.title = title,
                                 !.description = description, !.category = category,
                                 !.prev = gen.prev]
       ELSE \E writes \in {tagWrites(title, description, category)} :
            \E entries \in {tagScores(writes)} :
            \E draws \in (IF anyDraws THEN AnyDraws(Len(entries))
                                     ELSE SameDraws(Len(entries))) :
              gen' = [pc |-> "returned", title |-> title, description |-> description,
                      category |-> category, writes |-> writes,
                      candidates |-> entries,
                      tags |-> rankTags(decorate(entries, category, draws)),
                      seoTips |-> seoTips(category), prev |-> gen.prev]
  /\ UNCHANGED <<fcVars, route, memVars, keys>>

\* The caller takes the result, and keeps it for later (as a cache does) or
\* not; the next call starts from scratch.
ReturnTags(keep) ==
  /\ gen.pc \in {"returned", "threw"}
  /\ gen' = [NoGen EXCEPT !.prev = IF keep
                                   THEN [pc |-> gen.pc, title |-> gen.title,
                                         description |-> gen.description,
                                         category |-> gen.category,
                                         tags |-> gen.tags, seoTips |-> gen.seoTips]
                                   ELSE NoResult]
  /\ UNCHANGED <<fcVars, route, memVars, keys>>

\* generateTags on many listings, one run at a time.
NextTags ==
  \/ CallGenerateTags(TagTitles, TagDescriptions, TagCategories, FALSE)
  \/ ReturnTags(FALSE)

SpecTags == InitMem /\ [][NextTags]_vars

\* generateTags on a few listings, each result kept while the next call runs.
NextPure ==
  \/ CallGenerateTags(FewTitles, FewDescriptions, FewCategories, TRUE)
  \/ ReturnTags(TRUE)

SpecPure == InitMem /\ [][NextPure]_vars

(***************************************************************************)
(* Claims.                                                                 *)
(***************************************************************************)
Finished(p, apis) == call[p].pc = "done" /\ call[p].api \in apis

\* C1: get, set, getBinary and setBinary never surface a cache error to the
\* caller: whatever the external cache does, the call completes normally.
C1_NeverSurfaces ==
  \A p \in Procs :
    Finished(p, {"get", "set", "getBinary", "setBinary"}) => call[p].status = "returned"

\* C2: a request whose tag generation or render succeeded is answered with
\* status 200 and the computed result, whatever the cache calls of that
\* request did.
C2_NoServerError ==
  \A p \in Procs :
    (route[p].stage = "done" /\ route[p].computed)
      => (route[p].status = 200 /\ route[p].sent = "computed")

\* C3: when an error occurs during the attempt against the external cache
\* (the ping or the command itself), that same call is served from the
\* in-process store.
C3_ErrorFallsBack ==
  \A p \in Procs :
    (Finished(p, {"get", "set"}) /\ call[p].err \in {"ping", "cmd"})
      => (call[p].status = "returned" /\ call[p].tier = "memory")

\* C4: the degraded state is latched: whatever step clears the flag is the
\* connect event of the client (its status goes from connecting to connect).
C4_Latched ==
  [][(useMemoryCache /\ ~useMemoryCache') => (conn = "connecting" /\ conn' = "connect")]_vars

\* C4 witness: the cache is degraded, the client is connected to a reachable
\* server, and the ping of a call in flight has just succeeded.
C4_Witness ==
  useMemoryCache /\ ~redisNull /\ CanServe /\ \E p \in Procs : call[p].pc = "cmd"

\* C5 (as claimed): for every outage, once the external cache is reachable
\* for good, the cache eventually leaves the degraded state for good.
C5_AlwaysRecovers ==
  redisNull \/ (<>[]serverUp => <>[]~useMemoryCache)

\* C5 (amended): while the client is still trying to connect (it has not used
\* up its retries), a server that stays reachable leads to the connect event,
\* which clears the degraded state.
C5_RecoversWithinRetries ==
  (conn \in {"connecting", "reconnecting"} /\ serverUp) ~> (~useMemoryCache \/ ~serverUp)

\* C5 witness: after an outage the client is connected again, the flag is
\* clear and a get was served by the external tier.
C5_Witness ==
  /\ outages >= 1 /\ conn = "connect" /\ serverUp /\ ~useMemoryCache
  /\ Finished(1, {"get"}) /\ call[1].tier = "redis"

\* C6: with no external cache configured the cache is degraded from
\* construction on, never connects or pings, and the in-process store serves
\* every call.
C6_Unconfigured ==
  ~configured =>
    /\ useMemoryCache /\ redisNull /\ conn = "none" /\ ~pinged
    /\ redisStore = EmptyMap
    /\ \A p \in Procs : /\ call[p].pc \notin {"ping", "cmd"}
                        /\ call[p].pc = "done" => call[p].tier = "memory"

\* C6 witness: unconfigured, and a get returned a value that a set stored.
C6_Witness ==
  ~configured /\ \E p \in Procs : Finished(p, {"get"}) /\ call[p].ret # JNull

\* The step is a MemoryCache.get(k).
mcGetStep(k) == last' # last /\ last'.op = "get" /\ last'.key = k

\* C7, FallbackCache: set(K, V) followed immediately by get(K) returns V,
\* when the same tier (external or in-process) serves the two calls.
C7_FallbackRoundTrip ==
  \A p \in Procs :
    (/\ Finished(p, {"get"})
     /\ fresh[p].valid /\ fresh[p].api = "set" /\ fresh[p].key = call[p].key
     /\ call[p].tier = fresh[p].tier)
      => (call[p].status = "returned" /\ call[p].ret = fresh[p].val)

\* C7, MemoryCache: a get(K) that directly follows set(K, V) returns V.
C7_MemoryRoundTrip ==
  \A k \in MemKeys :
    (mcGetStep(k) /\ last.op = "set" /\ last.key = k) => last'.ret = last.val

\* C7: set(K, V) followed immediately by get(K) returns V, in both tiers of
\* FallbackCache and in MemoryCache, for every value V.
C7_RoundTrip == [][C7_FallbackRoundTrip' /\ C7_MemoryRoundTrip]_vars

\* C7, for the values MemoryCache's set did not reject as too large: the
\* round trip holds in all three stores.
C7_RoundTripWithinBudget ==
  [][/\ C7_FallbackRoundTrip'
     /\ \A k \in MemKeys :
          (mcGetStep(k) /\ last.op = "set" /\ last.key = k /\ ~last.rejected)
            => last'.ret = last.val]_vars

\* C7 witness: a string with a quote in it came back from the external tier,
\* and MemoryCache returned the value just set.
C7_Witness ==
  /\ \E p \in Procs :
       /\ Finished(p, {"get"})
       /\ fresh[p].valid /\ fresh[p].api = "set" /\ fresh[p].key = call[p].key
       /\ call[p].tier = "redis" /\ fresh[p].tier = "redis"
       /\ fresh[p].val = JStr(<<97, 34>>) /\ call[p].ret = JStr(<<97, 34>>)
  /\ last.op = "get" /\ last.ret = JNum(0)

\* C8: setBinary(K, B) followed by getBinary(K) returns the bytes of B, never
\* null, for every buffer B including the empty one.
C8_BinaryRoundTrip ==
  \A p \in Procs :
    (/\ Finished(p, {"getBinary"})
     /\ fresh[p].valid /\ fresh[p].api = "setBinary" /\ fresh[p].key = call[p].key
     /\ call[p].tier = fresh[p].tier)
      => (/\ call[p].status = "returned"
          /\ ~call[p].bin.isNull
          /\ call[p].bin.bytes = fresh[p].buf)

\* C8 witness: a non-empty buffer came back from the external tier.
C8_Witness ==
  \E p \in Procs :
    /\ Finished(p, {"getBinary"})
    /\ fresh[p].valid /\ fresh[p].api = "setBinary" /\ fresh[p].key = call[p].key
    /\ call[p].tier = "redis" /\ fresh[p].tier = "redis"
    /\ fresh[p].buf = <<255, 0>> /\ call[p].bin.bytes = <<255, 0>>

\* What get(k) must do, told from the state before it.
mcGetAsClaimed(k) ==
  IF mcHas(cache, k) /\ mcEntry(cache, k).expiry >= now
  THEN /\ last'.ret = mcEntry(cache, k).data
       /\ cache' = cache /\ currentSize' = currentSize
  ELSE /\ last'.ret = JNull
       /\ ~mcHas(cache', k)
       /\ cache' = mcDelete(cache, k)

\* The step finishes request p's get in FallbackCache's in-process store.
fcGetStep(p) ==
  /\ ncalls' # ncalls \/ call[p].pc = "ping"
  /\ call'[p].pc = "done" /\ call'[p].api = "get" /\ call'[p].tier = "memory"

fcGetAsClaimed(p) ==
  LET k == call'[p].key IN
  IF k \in DOMAIN memoryCache /\ memoryCache[k].expiry >= now
  THEN call'[p].ret = memoryCache[k].data /\ memoryCache' = memoryCache
  ELSE call'[p].ret = JNull /\ k \notin DOMAIN memoryCache'
                            /\ memoryCache' = MapDel(memoryCache, k)

\* C9: in both in-process stores, get returns the entry's value while its
\* expiry has not passed; once it has passed, get returns null and the entry
\* is gone, as if the key had never been set; the sweep need not have run.
C9_ExpiryOnRead ==
  [][/\ \A k \in MemKeys : mcGetStep(k) => mcGetAsClaimed(k)
     /\ \A p \in Procs : fcGetStep(p) => fcGetAsClaimed(p)]_vars

\* C9 witness: MemoryCache.get found the entry expired, returned null and
\* removed it, and FallbackCache's store had served a get as well.
C9_Witness ==
  /\ last.op = "get" /\ last.expired /\ last.ret = JNull /\ ~mcHas(cache, last.key)
  /\ Finished(1, {"get"}) /\ call[1].tier = "memory"

\* C10: the tracked size of MemoryCache never exceeds the byte budget.
C10_SizeBound == currentSize <= maxSize

\* C10 witness: a set evicted an entry to make room, and the store is full.
C10_Witness ==
  last.op = "set" /\ last.evicted # {} /\ currentSize = maxSize /\ Len(cache) >= 2

\* The step is a MemoryCache.set.
mcSetStep == last'.op = "set" /\ (last' # last \/ cache' # cache)

\* C11: whenever set evicts entries to make room, every evicted entry has an
\* expiry no later than the expiry of every entry that was in the store
\* before the set and was not evicted.
C11_EvictionOrder ==
  [][mcSetStep =>
       \A i, j \in 1..Len(cache) :
         (cache[i].key \in last'.evicted /\ cache[j].key \notin last'.evicted)
           => cache[i].expiry <= cache[j].expiry]_vars

\* C11 witness: a set evicted an entry and left in the store an older
\* insertion that expires later than the evicted one.
C11_Witness ==
  /\ last.op = "set" /\ last.evicted # {}
  /\ \E i \in 1..Len(cache) :
       cache[i].key # last.key /\ cache[i].expiry > last.evictedExp

\* C12: a set whose value is larger than the whole budget raises an error to
\* its caller and leaves the store as it was: no entry added, none evicted,
\* the tracked size unchanged.
C12_OversizedSignalled ==
  [][(mcSetStep /\ calculateSize(last'.val) > maxSize)
       => (last'.threw /\ cache' = cache /\ currentSize' = currentSize)]_vars

\* C12, the part about the store: an oversized set leaves the store as it was.
C12_OversizedStoresNothing ==
  [][(mcSetStep /\ calculateSize(last'.val) > maxSize)
       => (last'.evicted = {} /\ cache' = cache /\ currentSize' = currentSize)]_vars

\* C12 witness: an oversized set was made on a store that holds entries.
C12_Witness ==
  last.op = "set" /\ last.val = TooLarge /\ last.rejected /\ Len(cache) >= 2

\* The step finishes request p's healthCheck, and the in-process store served
\* both the probe write and the read-back.
hcServedByMemory(p) ==
  /\ call[p].api = "healthCheck" /\ call[p].pc \in {"hcget", "ping"}
  /\ call[p].op = "get" \/ call[p].pc = "hcget"
  /\ call[p].tier = "memory"
  /\ call'[p].pc = "done" /\ call'[p].tier = "memory"

\* C13: healthCheck never throws, and when the external cache served neither
\* the probe write nor the read-back (its operations failed, or it was
\* degraded), healthCheck returns true.
C13_HealthCheck ==
  [][\A p \in Procs :
       /\ (call'[p].api = "healthCheck" /\ call'[p].pc = "done")
            => call'[p].status = "returned"
       /\ hcServedByMemory(p) => call'[p].ret = JBool(TRUE)]_vars

\* C13 witness: a healthCheck whose ping was rejected returned true from the
\* in-process store.
C13_Witness ==
  /\ Finished(1, {"healthCheck"}) /\ call[1].err = "ping"
  /\ call[1].tier = "memory" /\ call[1].ret = JBool(TRUE)

\* The keys whose entry in m2 is new or differs from the one in m1.
Written(m1, m2) == {k \in DOMAIN m2 : k \notin DOMAIN m1 \/ m1[k] # m2[k]}

\* The step completes the write of request p's set (or setBinary, or the
\* probe write of healthCheck) to key k, served by tier tr.
setCompletes(p, k, tr) ==
  /\ call[p].pc \in {"ping", "cmd"} \/ ncalls' # ncalls
  /\ call'[p].api \in {"set", "setBinary", "healthCheck"}
  /\ call'[p].pc \in {"done", "hcget"}
  /\ call'[p].key = k /\ call'[p].tier = tr

\* C14: no step writes entries to both stores, and an entry appears or
\* changes in a store only when a set that selected this store completes: no
\* get, del or connection event (the connect event included) copies an entry
\* from one store to the other.
C14_NoDualWrite ==
  [][/\ Written(redisStore, redisStore') = {} \/ Written(memoryCache, memoryCache') = {}
     /\ \A k \in Written(redisStore, redisStore') :
          \E p \in Procs : setCompletes(p, k, "redis")
     /\ \A k \in Written(memoryCache, memoryCache') :
          \E p \in Procs : setCompletes(p, k, "memory")]_vars

\* C14 witness: after an outage the client is connected again and the flag
\* is clear, the in-process store holds an entry written during the outage,
\* and a get served by the external cache did not find it.
C14_Witness ==
  /\ conn = "connect" /\ ~useMemoryCache /\ outages >= 1
  /\ UserKey(1) \in DOMAIN memoryCache /\ UserKey(1) \notin DOMAIN redisStore
  /\ Finished(1, {"get"}) /\ call[1].tier = "redis" /\ call[1].ret = JNull

\* In how many places two argument lists differ.
DiffCount(a, b) == Cardinality({n \in 1..Len(a) : a[n] # b[n]})

C16_Unambiguous ==
  \A i, j \in Slots :
    (/\ keys[i].kind # "none" /\ keys[i].kind = keys[j].kind
     /\ <<keys[i].args, keys[i].opacity>> # <<keys[j].args, keys[j].opacity>>)
      => keys[i].key # keys[j].key

\* C16 witness: two watermark keys were derived from different tuples whose
\* texts contain ':', and the keys differ.
C16_Witness ==
  /\ keys[1].kind = "watermark" /\ keys[2].kind = "watermark"
  /\ keys[1].args[2] = <<58>> /\ keys[2].args[2] = <<97, 58>>
  /\ keys[1].key # keys[2].key

\* The lookup of route record r returned a value (a hit), told from what the
\* cache call gave.
WasHit(r) ==
  /\ r.look.status = "returned"
  /\ IF r.kind = "tags" THEN r.look.ret # JNull ELSE ~r.look.bin.isNull

ComputedScores(text) ==
  {gen.writes[i].score : i \in {j \in 1..Len(gen.writes) : gen.writes[j].text = text}}

Highest(S) == CHOOSE x \in S : \A y \in S : y <= x

FirstComputed(text) ==
  CHOOSE i \in 1..Len(gen.candidates) : gen.candidates[i].text = text

\* C18: in a generateTags result every text appears once, and a tag's score
\* is the highest of the scores the rules computed for its text.
C18_MergeByMax ==
  gen.pc = "returned" =>
    /\ \A i, j \in 1..Len(gen.tags) : gen.tags[i].text = gen.tags[j].text => i = j
    /\ \A i \in 1..Len(gen.tags) :
         gen.tags[i].score = Highest(ComputedScores(gen.tags[i].text))

\* C18 witness: two rules computed different scores for a text that was
\* returned.
C18_Witness ==
  /\ gen.pc = "returned"
  /\ \E i \in 1..Len(gen.tags) : Cardinality(ComputedScores(gen.tags[i].text)) > 1

\* C19: every tag generateTags returns has a score from 1 to 10.
C19_ScoreBounds ==
  gen.pc = "returned" =>
    \A i \in 1..Len(gen.tags) : gen.tags[i].score \in 1..10

\* C19 witness: a returned tag whose bonuses add up to more than 10 (a
\* keyword of the specialty table found in the title of a zodiac listing),
\* next to a tag scored by the category rule and one by a compound rule.
C19_Witness ==
  /\ gen.pc = "returned"
  /\ \E i \in 1..Len(gen.tags) : gen.tags[i].text = "zodiac signs" /\ gen.tags[i].score = 10
  /\ \E i \in 1..Len(gen.tags) : gen.tags[i].text = "wall art"
  /\ \E i \in 1..Len(gen.tags) : gen.tags[i].text = "children gift"

\* C20: the returned tags are in non-increasing score order, tags with equal
\* scores in the order they were first computed; there are at most 13; they
\* are candidates, and no candidate left out scores higher than a returned
\* tag or is left out while fewer than 13 are returned.
C20_Ranking ==
  gen.pc = "returned" =>
    LET tags == gen.tags
        returned == {Write(tags[i].text, tags[i].score) : i \in 1..Len(tags)}
        candidates == {gen.candidates[i] : i \in 1..Len(gen.candidates)}
    IN /\ Len(tags) <= 13
       /\ returned \subseteq candidates
       /\ \A i, j \in 1..Len(tags) :
            i < j => /\ tags[i].score >= tags[j].score
                     /\ tags[i].score = tags[j].score
                          => FirstComputed(tags[i].text) < FirstComputed(tags[j].text)
       /\ \A c \in candidates \ returned :
            /\ Len(tags) = 13
            /\ \A t \in returned : c.score <= t.score

\* C20 witness: more than 13 candidates, a tie among the returned tags, a
\* candidate left out, and a candidate computed late that was ranked first.
C20_Witness ==
  /\ gen.pc = "returned"
  /\ Len(gen.candidates) > 13
  /\ \E i \in 1..12 : gen.tags[i].score = gen.tags[i + 1].score
  /\ gen.tags[1].text # gen.candidates[1].text
  /\ gen.tags[13].score > gen.tags[1].score - 3

\* The kinds of watermark request whose upload has no type or a type that
\* is neither image nor video.
InvalidAssets == {"other", "untyped"}

C22_TipsNameTopTags ==
  gen.pc = "returned" =>
    /\ Len(gen.seoTips) = Len(seoTips(gen.category))
    /\ \E t \in 1..Len(gen.seoTips) :
         \A i \in 1..Min(3, Len(gen.tags)) : includes(gen.seoTips[t], gen.tags[i].text)

\* C22 witness: a result with three tags or more.
C22_Witness == gen.pc = "returned" /\ Len(gen.tags) >= 3 /\ Len(gen.seoTips) = 5

\* C24: a call that gets the input of the call before it returns what that
\* call returned: the same tags (text, score and emoji, in the same order)
\* and the same tips.
C24_Pure ==
  (/\ gen.pc = "returned" /\ gen.prev.pc = "returned"
   /\ gen.title = gen.prev.title /\ gen.description = gen.prev.description
   /\ gen.category = gen.prev.category)
    => (gen.tags = gen.prev.tags /\ gen.seoTips = gen.prev.seoTips)

\* C24 witness: two calls in a row with the same input that returned tags.
C24_Witness ==
  /\ gen.pc = "returned" /\ gen.prev.pc = "returned"
  /\ gen.title = gen.prev.title /\ gen.description = gen.prev.description
  /\ gen.category = gen.prev.category
  /\ gen.tags # <<>>

\* The keys of the watermark requests that reach the render.
RenderKeys == {RouteKey("image"), RouteKey("video")}

\* C23: a request whose render failed makes no cache write and is answered
\* with a server fault; what the cache holds under a watermark key is the
\* whole output of a successful render.
C23_FailedRender ==
  /\ \A p \in Procs :
       LET r == route[p] IN
       r.failed =>
         /\ r.stage = "done" /\ r.status \in 500..599 /\ r.sent = "error"
         /\ r.log = <<"read", "compute", "respond">> /\ r.writeKey = NoKeyUsed
  /\ \A k \in RenderKeys :
       /\ k \in DOMAIN memoryCache
            => memoryCache[k].data = JStr(toBase64(RenderedBytes))
       /\ k \in DOMAIN redisStore
            => redisStore[k].str = JSONstringify(JStr(toBase64(RenderedBytes)))

\* C23 step form: the step in which the render fails leaves both tiers of
\* the cache as they were.
C23_CacheUntouched ==
  [][\A p \in Procs : (route'[p].failed /\ ~route[p].failed)
        => (memoryCache' = memoryCache /\ redisStore' = redisStore)]_vars

\* C23 witness: the render of a watermark request failed while the cache
\* held the output of an earlier one.
C23_Witness ==
  /\ route[1].failed /\ route[1].kind \in {"image", "video"}
  /\ \E k \in RenderKeys : k \in (DOMAIN memoryCache) \cup (DOMAIN redisStore)

\* An expired entry is held: by FallbackCache's Map, by MemoryCache's map.
fcHoldsExpired(k) == k \in DOMAIN memoryCache /\ Expired(memoryCache[k], now)
mcHoldsExpired(k) == mcHas(cache, k) /\ mcExpired(mcEntry(cache, k), now)

\* C25: an expired entry of an in-process store is eventually gone, whether
\* or not it is read again.
C25_EventuallyEvicted ==
  /\ fcHoldsExpired(UserKey(1)) ~> ~fcHoldsExpired(UserKey(1))
  /\ mcHoldsExpired(UserKey(1)) ~> ~mcHoldsExpired(UserKey(1))

\* C25, for the store that has a sweep: MemoryCache's expired entries are
\* eventually gone, and a sweep takes expired entries only.
C25_MemoryCacheSwept == mcHoldsExpired(UserKey(1)) ~> ~mcHoldsExpired(UserKey(1))

C25_SweepTakesExpiredOnly ==
  [][last'.op = "cleanup" =>
       \A i \in 1..Len(cache) :
         IF mcExpired(cache[i], now) THEN ~mcHas(cache', cache[i].key)
         ELSE \E j \in 1..Len(cache') : cache'[j] = cache[i]]_vars

\* C25 witness: FallbackCache's Map holds an expired entry after a sweep of
\* MemoryCache has run.
C25_Witness == fcHoldsExpired(UserKey(1)) /\ last.op = "cleanup"

\* C26: when the connection closes for the n-th time in a row, n from 1 to
\* 3, the client reconnects after min(n * 1000, 3000) ms; the 4th time no
\* attempt is scheduled, the cache is marked degraded and the error is
\* recorded; the client then stays closed.
C26_BoundedRetries ==
  [][/\ retries' = retries + 1 =>
          IF retries' <= 3
          THEN /\ conn' = "reconnecting"
               /\ retryDelay' = (IF retries' * 1000 < 3000 THEN retries' * 1000 ELSE 3000)
          ELSE /\ retries' = 4
               /\ conn' = "end" /\ retryDelay' = 0
               /\ useMemoryCache' /\ connectionError' = "retries"
     /\ conn = "end" => conn' = "end" /\ retries' = retries]_vars

\* C26 witness: the client gave up at the 4th retry, after a third retry
\* that was scheduled 3000 ms later.
C26_Witness ==
  /\ conn = "end" /\ retries = 4 /\ useMemoryCache /\ connectionError = "retries"

\* C27: the tracked size of MemoryCache is the sum of the sizes recorded in
\* its entries, and each recorded size is the size of the entry's value.
C27_SizeAccounting ==
  /\ currentSize = SumSizes(cache)
  /\ \A i \in 1..Len(cache) : cache[i].size = calculateSize(cache[i].data)

\* C27 witness: a set has just evicted an entry and stored its own, next to
\* an entry that stayed, and the store is not full.
C27_Witness ==
  /\ last.op = "set" /\ last.evicted # {} /\ mcHas(cache, last.key)
  /\ Len(cache) >= 2 /\ 0 < currentSize /\ currentSize < maxSize

\* C28: a set that overwrites a key with a value no larger than the value it
\* replaces evicts no other key.
C28_OverwriteEvictsNoOther ==
  [][(/\ mcSetStep /\ mcHas(cache, last'.key)
      /\ calculateSize(last'.val) <= mcEntry(cache, last'.key).size)
       => last'.evicted \subseteq {last'.key}]_vars

\* C28 witness: a set overwrote a key with a value of the same size and
\* another key was evicted by it.
C28_Witness ==
  /\ last.op = "set" /\ mcHas(cache, last.key)
  /\ last.evicted \ {last.key} # {}
  /\ currentSize + calculateSize(last.val) <= maxSize


\* a get of request p returned, and the last call to complete before it was
\* a set (op = "set") or a del (op = "del") of the same key
GetAfter(p, op) ==
  /\ Finished(p, {"get"}) /\ call[p].status = "returned"
  /\ latest.op = op

\* C29: a get never returns a value older than the one written by the most
\* recent completed set of the same key, however the tiers flipped in
\* between: it returns that value, or nothing.
C29_NoStaleRead ==
  \A p \in Procs : GetAfter(p, "set") => call[p].ret \in {JNull, latest.val}

\* a get that followed a set across an outage, answered by the external tier
C29_Witness ==
  /\ GetAfter(1, "set") /\ outages >= 1 /\ call[1].tier = "redis"
  /\ call[1].ret # JNull

\* C30: once a del has completed, a get of the same key returns null until
\* the next set, whatever error and connect events came before and after
\* the del.
C30_DeleteEffective ==
  \A p \in Procs : GetAfter(p, "del") => call[p].ret = JNull

\* a get that followed a del across an outage, answered by the external tier
C30_Witness ==
  /\ GetAfter(1, "del") /\ outages >= 1 /\ call[1].tier = "redis"
  /\ conn = "connect"

=============================================================================
